---- MODULE Spec2Model ----
(***************************************************************************)
(* Model of the two issue-submission scripts of extractoR:                 *)
(*   create_issues.py         (module level, create_issue, main)           *)
(*   create_issues_direct.py  (get_github_token, auth check, exec + main)  *)
(* One process run of either script is one behaviour.  The environment    *)
(* (GITHUB_TOKEN, the gh helper, the HTTP responses) is nondeterministic.  *)
(***************************************************************************)
EXTENDS Integers, Sequences, FiniteSets, TLC

\* ---------------------------------------------------------------- bounds
MaxIssues == 3
MaxStdout == 3

\* ------------------------------------------------------- python values
\* An optional string: None, or a str given as a sequence of characters.
None == [none |-> TRUE, s |-> <<>>]
Str(s) == [none |-> FALSE, s |-> s]
\* Python truthiness of an optional string: None and '' are falsy.
IsNotNone(v) == ~v.none
Truthy(v) == ~v.none /\ v.s # <<>>

Chars == {"h", " ", "NL"}
IsSpace(c) == c \in {" ", "NL"}

RECURSIVE lstrip(_)
lstrip(s) == IF s = <<>> THEN s
             ELSE IF IsSpace(Head(s)) THEN lstrip(Tail(s)) ELSE s
RECURSIVE rstrip(_)
rstrip(s) == IF s = <<>> THEN s
             ELSE IF IsSpace(s[Len(s)]) THEN rstrip(SubSeq(s, 1, Len(s) - 1)) ELSE s
strip_left(s) == lstrip(s)
strip_none(s) == s
\* str.strip()
strip(s) == rstrip(lstrip(s))

SeqsUpTo(S, n) == UNION {[1..k -> S] : k \in 0..n}

\* ---------------------------------------------------------- environment
EnvValues == {None, Str(<<>>), Str(<<"e">>)}

Stdouts == SeqsUpTo(Chars, MaxStdout)
\* What subprocess.run(['gh','auth','token'], timeout=5) can do.
HelperOutcomes ==
    {[kind |-> "exit", rc |-> rc, stdout |-> o] : rc \in {0, 1}, o \in Stdouts}
    \cup {[kind |-> k, rc |-> 0, stdout |-> <<>>] :
             k \in {"FileNotFoundError", "TimeoutExpired", "PermissionError"}}
NotRun == [kind |-> "notrun", rc |-> 0, stdout |-> <<>>]

AuthStatuses == {200, 204, 304, 401, 404}
\* What requests.post + the handling of its response can meet:
\* exc = "transport": requests.post raised; exc = "json": response.json()
\* or the lookup of issue['number'] raised; exc = "none": no exception.
PostOutcomes ==
    {[exc |-> "none", status |-> st] : st \in {200, 201, 422}}
    \cup {[exc |-> "json", status |-> 201], [exc |-> "transport", status |-> 0]}

Records == {"A", "B"}
Catalogs == SeqsUpTo(Records, MaxIssues)

VARIABLES
    script,      \* which script the process runs: "plain" or "direct"
    env,         \* os.environ.get('GITHUB_TOKEN')
    catalog,     \* the list literal of create_issues.py lines 30-1413
    pc,          \* position of the process
    ret,         \* where the running call of main() returns to
    token,       \* global 'token' of create_issues_direct.py
    GITHUB_TOKEN,\* global of create_issues.py
    headers,     \* the credential in headers['Authorization']
    issues,      \* global 'issues'
    i, created, failed,  \* locals of main()
    helperCalls, helperRes, \* invocations of the helper, and the last outcome
    authStatus,  \* test_response.status_code (0: no response)
    log,         \* history: every GET, POST and sleep of the run, in order
    sent,        \* history: records POSTed by the running call of main()
    results,     \* history: completed submissions of the running call
    mainCalls,   \* history: number of calls of main()
    out,         \* what was printed (tags)
    summaries,   \* the summary blocks printed
    exitStatus,  \* process exit status (meaningful when pc = "done")
    uncaught     \* the process ended by an uncaught exception

vars == <<script, env, catalog, pc, ret, token, GITHUB_TOKEN, headers, issues,
          i, created, failed, helperCalls, helperRes, authStatus, log, sent,
          results, mainCalls, out, summaries, exitStatus, uncaught>>

mainLocals == <<i, created, failed>>
history == <<log, sent, results, mainCalls>>
inputs == <<script, env, catalog>>

Event(k, r, c) == [kind |-> k, rec |-> r, cred |-> c]

Init ==
    /\ script \in {"plain", "direct"}
    /\ env \in EnvValues
    /\ catalog \in Catalogs
    /\ pc = IF script = "plain" THEN "ci_module" ELSE "d_resolve"
    /\ ret = "none"
    /\ token = None
    /\ GITHUB_TOKEN = None
    /\ headers = None
    /\ issues = <<>>
    /\ i = 0 /\ created = 0 /\ failed = 0
    /\ helperCalls = 0 /\ helperRes = NotRun
    /\ authStatus = 0
    /\ log = <<>> /\ sent = <<>> /\ results = <<>> /\ mainCalls = 0
    /\ out = <<>> /\ summaries = <<>>
    /\ exitStatus = 0
    /\ uncaught = FALSE

\* sys.exit(n)
Exit(n) == pc' = "done" /\ exitStatus' = n /\ uncaught' = FALSE
\* an exception nobody catches: traceback, exit status 1
Crash == pc' = "done" /\ exitStatus' = 1 /\ uncaught' = TRUE

\* ------------------------------------------- create_issues_direct.py
CaughtOnlyAbsent(kind) == kind = "FileNotFoundError"
\* The exceptions of the helper invocation that get_github_token swallows.
Caught(kind) == kind \in {"FileNotFoundError", "TimeoutExpired"}

TokenOfHelperFirst(e, h) ==
    IF h.kind = "exit" /\ h.rc = 0 /\ strip(h.stdout) # <<>>
    THEN [raised |-> FALSE, val |-> Str(strip(h.stdout))]
    ELSE [raised |-> FALSE, val |-> IF Truthy(e) THEN e ELSE None]
\* get_github_token(): the value returned, and whether it raised instead.
TokenOf(e, h) ==
    IF Truthy(e) THEN [raised |-> FALSE, val |-> e]
    ELSE IF h.kind = "exit"
         THEN [raised |-> FALSE,
               val |-> IF h.rc = 0 THEN Str(strip(h.stdout)) ELSE None]
         ELSE IF Caught(h.kind) THEN [raised |-> FALSE, val |-> None]
              ELSE [raised |-> TRUE, val |-> None]

\* line 48: token = get_github_token()
get_github_token ==
    /\ pc = "d_resolve"
    /\ \E h \in HelperOutcomes :
         LET invoked == ~Truthy(env)
             r == TokenOf(env, h)
         IN /\ helperCalls' = IF invoked THEN helperCalls + 1 ELSE helperCalls
            /\ helperRes' = IF invoked THEN h ELSE helperRes
            /\ IF r.raised
               THEN Crash /\ token' = token
               ELSE /\ token' = r.val
                    /\ pc' = "d_tokencheck"
                    /\ UNCHANGED <<exitStatus, uncaught>>
    /\ UNCHANGED <<inputs, ret, GITHUB_TOKEN, headers, issues, mainLocals,
                   authStatus, history, out, summaries>>

\* lines 50-68: if not token: remediation text, sys.exit(1); headers = {...}
TokenCheck ==
    /\ pc = "d_tokencheck"
    /\ IF ~Truthy(token)
       THEN /\ out' = Append(out, "REMEDIATION")
            /\ Exit(1)
            /\ headers' = headers
       ELSE /\ headers' = token
            /\ pc' = "d_auth"
            /\ UNCHANGED <<out, exitStatus, uncaught>>
    /\ UNCHANGED <<inputs, ret, token, GITHUB_TOKEN, issues, mainLocals,
                   helperCalls, helperRes, authStatus, history, summaries>>

\* lines 71-72: the request of requests.get(...) goes out
AuthSend ==
    /\ pc = "d_auth"
    /\ out' = Append(out, "TESTING")
    /\ log' = Append(log, Event("GET", "-", headers))
    /\ pc' = "d_authwait"
    /\ UNCHANGED <<inputs, ret, token, GITHUB_TOKEN, headers, issues,
                   mainLocals, helperCalls, helperRes, authStatus, sent,
                   results, mainCalls, summaries, exitStatus, uncaught>>

AuthOkBelow400(status) == status < 400
AuthOkAny2xx(status) == status \in 200..299
\* line 73: the status that lets the run go on
AuthOk(status) == status = 200

AuthReturnSwallows ==
    /\ pc = "d_authwait"
    /\ \/ \E st \in AuthStatuses :
            /\ authStatus' = st
            /\ IF AuthOk(st)
               THEN /\ out' = Append(out, "AUTHOK")
                    /\ pc' = "d_exec"
                    /\ UNCHANGED <<exitStatus, uncaught>>
               ELSE /\ out' = Append(out, "AUTHFAILED")
                    /\ Exit(1)
       \/ /\ pc' = "d_exec"
          /\ UNCHANGED <<authStatus, out, exitStatus, uncaught>>
    /\ UNCHANGED <<inputs, ret, token, GITHUB_TOKEN, headers, issues,
                   mainLocals, helperCalls, helperRes, history, summaries>>

\* lines 72-78: requests.get returns or raises; the status is tested
AuthReturn ==
    /\ pc = "d_authwait"
    /\ \/ \E st \in AuthStatuses :
            /\ authStatus' = st
            /\ IF AuthOk(st)
               THEN /\ out' = Append(out, "AUTHOK")
                    /\ pc' = "d_exec"
                    /\ UNCHANGED <<exitStatus, uncaught>>
               ELSE /\ out' = Append(out, "AUTHFAILED")
                    /\ Exit(1)
       \/ /\ Crash
          /\ UNCHANGED <<authStatus, out>>
    /\ UNCHANGED <<inputs, ret, token, GITHUB_TOKEN, headers, issues,
                   mainLocals, helperCalls, helperRes, history, summaries>>

\* line 81: exec(open('create_issues.py').read()) runs the module level of
\* create_issues.py in the globals of this script
Exec ==
    /\ pc = "d_exec"
    /\ pc' = "ci_module"
    /\ UNCHANGED <<inputs, ret, token, GITHUB_TOKEN, headers, issues,
                   mainLocals, helperCalls, helperRes, authStatus, history,
                   out, summaries, exitStatus, uncaught>>

\* ---------------------------------------------------- create_issues.py
\* lines 14-1413: GITHUB_TOKEN from the environment, exit 1 if falsy,
\* headers and issues (re)bound
CiModule ==
    /\ pc = "ci_module"
    /\ GITHUB_TOKEN' = env
    /\ IF ~Truthy(env)
       THEN /\ out' = Append(out, "TOKEN_NOT_SET")
            /\ Exit(1)
            /\ UNCHANGED <<headers, issues>>
       ELSE /\ headers' = env
            /\ issues' = catalog
            /\ pc' = "ci_guard"
            /\ UNCHANGED <<out, exitStatus, uncaught>>
    /\ UNCHANGED <<inputs, ret, token, mainLocals, helperCalls, helperRes,
                   authStatus, history, summaries>>

\* lines 1438-1444 entered from a call site: created = 0, failed = 0
CallMain(from, to) ==
    /\ pc = from
    /\ ret' = to
    /\ created' = 0 /\ failed' = 0 /\ i' = 0
    /\ sent' = <<>> /\ results' = <<>>
    /\ mainCalls' = mainCalls + 1
    /\ out' = Append(out, "CREATING")
    /\ pc' = "m_loop"
    /\ UNCHANGED <<inputs, token, GITHUB_TOKEN, headers, issues, helperCalls,
                   helperRes, authStatus, log, summaries, exitStatus, uncaught>>

\* lines 1468-1469: if __name__ == "__main__": main()
\* (__name__ is "__main__" in both scripts: the exec'd source sees the
\* globals of the running script)
CiGuard == CallMain("ci_guard", "ci_end")

\* line 84 of create_issues_direct.py: main()
DirectMain == CallMain("d_main", "d_end")

NextRecordReversed(iss, n) == iss[Len(iss) + 1 - n]
\* the record that iteration n of 'for i, issue in enumerate(issues, 1)' gets
NextRecord(iss, n) == iss[n]

LoopNextPops ==
    /\ pc = "m_loop"
    /\ IF issues # <<>>
       THEN /\ i' = i + 1
            /\ log' = Append(log, Event("POST", Head(issues), headers))
            /\ sent' = Append(sent, Head(issues))
            /\ issues' = Tail(issues)
            /\ pc' = "m_posting"
       ELSE /\ pc' = "m_summary"
            /\ UNCHANGED <<i, log, sent, issues>>
    /\ UNCHANGED <<inputs, ret, token, GITHUB_TOKEN, headers, created,
                   failed, helperCalls, helperRes, authStatus, results,
                   mainCalls, out, summaries, exitStatus, uncaught>>

\* lines 1446-1448 and 1418-1422: next iteration; create_issue sends its POST
LoopNext ==
    /\ pc = "m_loop"
    /\ IF i < Len(issues)
       THEN /\ i' = i + 1
            /\ log' = Append(log, Event("POST", NextRecord(issues, i + 1), headers))
            /\ sent' = Append(sent, NextRecord(issues, i + 1))
            /\ pc' = "m_posting"
       ELSE /\ pc' = "m_summary"
            /\ UNCHANGED <<i, log, sent>>
    /\ UNCHANGED <<inputs, ret, token, GITHUB_TOKEN, headers, issues, created,
                   failed, helperCalls, helperRes, authStatus, results,
                   mainCalls, out, summaries, exitStatus, uncaught>>

create_issue_any2xx(o) ==
    IF o.exc = "transport" THEN FALSE
    ELSE IF o.status \in 200..299
         THEN (IF o.exc = "json" THEN FALSE ELSE TRUE)
         ELSE FALSE
\* lines 1415-1436: the value create_issue returns for an outcome of the POST
create_issue(o) ==
    IF o.exc = "transport" THEN FALSE
    ELSE IF o.status = 201
         THEN (IF o.exc = "json" THEN FALSE ELSE TRUE)
         ELSE FALSE

TallySwapped(c, f, ok) ==
    [created |-> IF ok THEN c ELSE c + 1, failed |-> IF ok THEN f + 1 ELSE f]
TallyDropsFailure(c, f, ok) ==
    [created |-> IF ok THEN c + 1 ELSE c, failed |-> f]
\* lines 1448-1451: if create_issue(issue): created += 1 else: failed += 1
Tally(c, f, ok) ==
    [created |-> IF ok THEN c + 1 ELSE c, failed |-> IF ok THEN f ELSE f + 1]

AfterSubmitAlwaysPause(ok, n, len) == "m_sleeping"
AfterSubmitBreak(ok, n, len) ==
    IF ~ok THEN "m_summary" ELSE IF n < len THEN "m_sleeping" ELSE "m_loop"
\* lines 1453-1455: if i < len(issues): time.sleep(1); then the next iteration
AfterSubmit(ok, n, len) == IF n < len THEN "m_sleeping" ELSE "m_loop"

\* lines 1418-1455: the POST returns or raises, the tally is updated and
\* the pause is entered unless this was the last record
PostReturn ==
    /\ pc = "m_posting"
    /\ \E o \in PostOutcomes :
         LET ok == create_issue(o)
         IN /\ created' = Tally(created, failed, ok).created
            /\ failed' = Tally(created, failed, ok).failed
            /\ results' = Append(results,
                   [rec |-> sent[Len(sent)], status |-> o.status,
                    exc |-> o.exc, ok |-> ok])
            /\ pc' = AfterSubmit(ok, i, Len(issues))
    /\ UNCHANGED <<inputs, ret, token, GITHUB_TOKEN, headers, issues, i,
                   helperCalls, helperRes, authStatus, log, sent, mainCalls,
                   out, summaries, exitStatus, uncaught>>

\* line 1455: time.sleep(1) returns
SleepReturn ==
    /\ pc = "m_sleeping"
    /\ log' = Append(log, Event("SLEEP", "-", None))
    /\ pc' = "m_loop"
    /\ UNCHANGED <<inputs, ret, token, GITHUB_TOKEN, headers, issues,
                   mainLocals, helperCalls, helperRes, authStatus, sent,
                   results, mainCalls, out, summaries, exitStatus, uncaught>>

ExitsOnFailedAtLeastZero(f) == f >= 0
\* line 1465: if failed > 0
ExitsOnFailed(f) == f > 0

\* lines 1457-1466: the summary block, then sys.exit(1) if failed > 0
Summary ==
    /\ pc = "m_summary"
    /\ out' = Append(out, "SUMMARY")
    /\ summaries' = Append(summaries,
           [created |-> created, failed |-> failed, total |-> Len(issues)])
    /\ IF ExitsOnFailed(failed)
       THEN Exit(1)
       ELSE pc' = ret /\ UNCHANGED <<exitStatus, uncaught>>
    /\ UNCHANGED <<inputs, ret, token, GITHUB_TOKEN, headers, issues,
                   mainLocals, helperCalls, helperRes, authStatus, history>>

\* end of the source of create_issues.py: the process ends with status 0,
\* or the exec of create_issues_direct.py line 81 returns
CiEnd ==
    /\ pc = "ci_end"
    /\ IF script = "plain"
       THEN Exit(0)
       ELSE pc' = "d_main" /\ UNCHANGED <<exitStatus, uncaught>>
    /\ UNCHANGED <<inputs, ret, token, GITHUB_TOKEN, headers, issues,
                   mainLocals, helperCalls, helperRes, authStatus, history,
                   out, summaries>>

\* end of create_issues_direct.py
DirectEnd ==
    /\ pc = "d_end"
    /\ Exit(0)
    /\ UNCHANGED <<inputs, ret, token, GITHUB_TOKEN, headers, issues,
                   mainLocals, helperCalls, helperRes, authStatus, history,
                   out, summaries>>

Next ==
    \/ get_github_token
    \/ TokenCheck
    \/ AuthSend
    \/ AuthReturn
    \/ Exec
    \/ CiModule
    \/ CiGuard
    \/ DirectMain
    \/ LoopNext
    \/ PostReturn
    \/ SleepReturn
    \/ Summary
    \/ CiEnd
    \/ DirectEnd

Spec == Init /\ [][Next]_vars

\* The steps of main() are taken: the interpreter goes on from one statement
\* to the next, and every requests.post and time.sleep returns or raises.
FairSpec ==
    /\ Spec
    /\ WF_vars(LoopNext)
    /\ WF_vars(PostReturn)
    /\ WF_vars(SleepReturn)
    /\ WF_vars(Summary)

\* ------------------------------------------------------ type invariant
TypeOK ==
    /\ script \in {"plain", "direct"}
    /\ i \in 0..Len(issues)
    /\ created \in 0..MaxIssues /\ failed \in 0..MaxIssues
    /\ exitStatus \in {0, 1}
    /\ mainCalls \in 0..2

\* ------------------------------------------------------------ history
NumKind(k) == Cardinality({n \in 1..Len(log) : log[n].kind = k})
NumOk(rs) == Cardinality({n \in 1..Len(rs) : rs[n].ok})
\* the latest call of main() has printed its summary
MainEnded == mainCalls > 0 /\ Len(summaries) = mainCalls

\* C1: in main(), created + failed is the number of records processed so
\* far after each iteration (one less while a submission is in flight),
\* every completed submission is counted exactly once as Created or Failed,
\* and every printed summary has created + failed = total = N.
C1_TallyIsProcessed ==
    /\ created + failed = Len(results)
    /\ created + failed = IF pc = "m_posting" THEN i - 1 ELSE i
    /\ \A k \in 1..Len(summaries) :
          /\ summaries[k].created + summaries[k].failed = summaries[k].total
          /\ summaries[k].total = Len(catalog)

C1_Witness ==
    /\ summaries # <<>>
    /\ summaries[1].total = 3
    /\ summaries[1].created > 0
    /\ summaries[1].failed > 0

\* C2: a failed submission (non-201 status or an exception) is counted as
\* Failed for that record only and does not end the loop: when main() has
\* printed its summary all N records were attempted, in order, and failed
\* is the number of submissions that did not succeed.
C2_FailureDoesNotEndLoop ==
    /\ failed = Len(results) - NumOk(results)
    /\ (pc = "m_summary" \/ MainEnded) =>
          /\ Len(results) = Len(catalog)
          /\ \A k \in 1..Len(catalog) : results[k].rec = catalog[k]

C2_Witness ==
    /\ MainEnded
    /\ Len(results) = 3
    /\ results[1].exc = "transport"
    /\ results[2].status = 422
    /\ results[3].ok
    /\ failed = 2

\* C3: in a run of create_issues_direct.py every record is POSTed exactly
\* once: never more POSTs than records, and a run that ends with status 0
\* made exactly N POSTs and counted N Created.
C3_EachRecordPostedOnce ==
    script = "direct" =>
        /\ NumKind("POST") <= Len(catalog)
        /\ (pc = "done" /\ exitStatus = 0) =>
              (NumKind("POST") = Len(catalog) /\ created = Len(catalog))

\* C4: in create_issues_direct.py, once a non-empty credential is resolved
\* (from the variable or from the helper) and the authentication check
\* succeeded, the run attempts every record of the catalog before it ends.
C4_ResolvedThenAllAttempted ==
    (script = "direct" /\ pc = "done" /\ Truthy(token) /\ authStatus = 200) =>
        NumKind("POST") >= Len(catalog)

\* the helper produced no credential
HelperYieldsNothing(h) ==
    \/ h.kind # "exit"
    \/ h.rc # 0
    \/ \A k \in 1..Len(h.stdout) : IsSpace(h.stdout[k])

NoCredential ==
    \/ script = "plain" /\ ~(~env.none /\ env.s # <<>>)
    \/ /\ script = "direct"
       /\ ~(~env.none /\ env.s # <<>>)
       /\ helperRes.kind # "notrun"
       /\ HelperYieldsNothing(helperRes)

C6_AuthRejectedFailsFast ==
    (script = "direct" /\ authStatus # 0 /\ authStatus \notin 200..299) =>
        /\ pc = "done"
        /\ exitStatus = 1
        /\ NumKind("POST") = 0
        /\ NumKind("GET") = 1

C6_Witness ==
    /\ script = "direct"
    /\ authStatus = 401
    /\ pc = "done"
    /\ NumKind("GET") = 1

\* t is the str o with the surrounding whitespace removed
IsTrimOf(t, o) ==
    /\ ~t.none
    /\ \E a \in 0..Len(o) : \E b \in a..Len(o) :
          /\ t.s = SubSeq(o, a + 1, b)
          /\ \A k \in 1..a : IsSpace(o[k])
          /\ \A k \in (b + 1)..Len(o) : IsSpace(o[k])
          /\ t.s # <<>> => (~IsSpace(t.s[1]) /\ ~IsSpace(t.s[Len(t.s)]))

\* what the call of get_github_token leaves alone
ResolveFrame ==
    UNCHANGED <<script, env, catalog, ret, GITHUB_TOKEN, headers, issues, i,
                created, failed, authStatus, log, sent, results, mainCalls,
                out, summaries>>

EnvNonEmpty == ~env.none /\ env.s # <<>>

ResolveFromEnv ==
    /\ token' = env
    /\ helperCalls' = helperCalls
    /\ helperRes' = helperRes
    /\ pc' = "d_tokencheck"

ResolveFromHelper ==
    /\ helperCalls' = helperCalls + 1
    /\ helperRes'.kind # "notrun"
    /\ (helperRes'.kind = "exit" /\ helperRes'.rc = 0) =>
          (pc' = "d_tokencheck" /\ IsTrimOf(token', helperRes'.stdout))

C8_HelperFailureIsSilent ==
    (script = "direct" /\ helperRes.kind \in {"FileNotFoundError", "TimeoutExpired"}) =>
        /\ ~uncaught
        /\ token = None
        /\ pc \in {"d_tokencheck", "done"}
        /\ pc = "done" => (exitStatus = 1 /\ out = <<"REMEDIATION">> /\ log = <<>>)

C8_Witness ==
    /\ pc = "done"
    /\ helperRes.kind = "TimeoutExpired"
    /\ out = <<"REMEDIATION">>
    /\ exitStatus = 1

\* C9: a call of main() POSTs the records in catalog order, the k-th POST
\* carrying the k-th record, and at most one submission is in flight: the
\* k-th has completed before the (k+1)-th is sent.
C9_CatalogOrderOneAtATime ==
    /\ Len(sent) <= Len(catalog)
    /\ \A k \in 1..Len(sent) : k <= Len(catalog) => sent[k] = catalog[k]
    /\ Len(sent) - Len(results) = IF pc = "m_posting" THEN 1 ELSE 0
    /\ \A k \in 1..Len(results) : results[k].rec = sent[k]

C9_Witness ==
    /\ Len(catalog) = 3
    /\ catalog[1] # catalog[3]
    /\ Len(sent) = 3
    /\ Len(results) = 3

\* C10: within one process run a pause separates any two consecutive
\* submissions, and no pause follows the last submission of the run.
C10_PauseBetweenSubmissions ==
    /\ \A k \in 1..(Len(log) - 1) :
          (log[k].kind = "POST" /\ log[k + 1].kind = "POST") => FALSE
    /\ (pc = "done" /\ log # <<>>) => log[Len(log)].kind # "SLEEP"

\* the summary block printed by the latest call of main()
LastSummary == summaries[Len(summaries)]

\* C11: when main() has printed its summary, created is the number of
\* submissions that succeeded, failed the number of the others and total
\* is N; with no failing submission the tally is {N, 0, N}, and for
\* [succeeds, status 422, succeeds] it is {2, 1, 3}.
C11_SummaryCountsOutcomes ==
    MainEnded =>
        /\ LastSummary.created = NumOk(results)
        /\ LastSummary.failed = Len(results) - NumOk(results)
        /\ LastSummary.total = Len(catalog)
        /\ LastSummary.created = created /\ LastSummary.failed = failed
        /\ (\A k \in 1..Len(results) : results[k].ok) =>
              LastSummary = [created |-> Len(catalog), failed |-> 0,
                             total |-> Len(catalog)]
        /\ (/\ Len(results) = 3
            /\ results[1].ok /\ results[2].status = 422 /\ results[3].ok) =>
              LastSummary = [created |-> 2, failed |-> 1, total |-> 3]

C11_Witness ==
    /\ MainEnded
    /\ Len(results) = 3
    /\ results[1].ok /\ results[2].status = 422 /\ results[3].ok
    /\ LastSummary = [created |-> 2, failed |-> 1, total |-> 3]

\* C12: a run of create_issues.py with a non-empty GITHUB_TOKEN ends with
\* status 1 exactly when a submission was counted Failed and with status 0
\* otherwise, and it ends only after all N records were attempted and the
\* summary was printed.
C12_ExitStatusIffFailed ==
    (script = "plain" /\ ~env.none /\ env.s # <<>> /\ pc = "done") =>
        /\ exitStatus = 1 <=> Len(results) - NumOk(results) > 0
        /\ exitStatus \in {0, 1}
        /\ Len(results) = Len(catalog)
        /\ Len(summaries) = 1
        /\ out = <<"CREATING", "SUMMARY">>

C12_Witness ==
    /\ script = "plain"
    /\ pc = "done"
    /\ exitStatus = 1
    /\ Len(results) = 3
    /\ results[1].ok /\ ~results[2].ok /\ results[3].ok

\* C13: with an empty catalog main() makes no POST and no pause, reports
\* {created: 0, failed: 0, total: 0} and the exit status stays 0.
C13_EmptyCatalog ==
    (catalog = <<>> /\ mainCalls > 0) =>
        /\ sent = <<>>
        /\ NumKind("POST") = 0
        /\ NumKind("SLEEP") = 0
        /\ \A k \in 1..Len(summaries) :
              summaries[k] = [created |-> 0, failed |-> 0, total |-> 0]
        /\ exitStatus = 0
        /\ pc \notin {"m_posting", "m_sleeping"}

C13_Witness ==
    /\ catalog = <<>>
    /\ pc = "done"
    /\ summaries = <<[created |-> 0, failed |-> 0, total |-> 0]>>
    /\ exitStatus = 0

\* C14 as stated: create_issue classifies by the response status alone:
\* Created exactly when the status is 201.
C14_StatusAloneOriginal ==
    \A k \in 1..Len(results) : results[k].ok <=> results[k].status = 201

\* C14 amended: a submission is Created exactly when its response status is
\* 201 and the response is read without an exception; any other status, and
\* any exception, is Failed.
C14_StatusAndNoException ==
    \A k \in 1..Len(results) :
        results[k].ok <=> (results[k].status = 201 /\ results[k].exc = "none")

C14_Witness ==
    /\ Len(results) = 3
    /\ results[1].status = 201 /\ results[1].ok
    /\ results[2].status = 200 /\ ~results[2].ok
    /\ results[3].status = 201 /\ results[3].exc = "json" /\ ~results[3].ok

\* C15: in a run of either script no POST is issued unless an
\* authentication GET with the credential of the POST was issued earlier in
\* the run and returned success.
C15_PostOnlyAfterAuth ==
    \A n \in 1..Len(log) :
        log[n].kind = "POST" =>
            /\ authStatus = 200
            /\ \E m \in 1..(n - 1) :
                  log[m].kind = "GET" /\ log[m].cred = log[n].cred

MainPcs == {"m_loop", "m_posting", "m_sleeping", "m_summary"}

\* C16: the list 'issues' is the catalog, unchanged, at every point of
\* main() and across every call of create_issue.
C16_CatalogUnchanged ==
    (pc \in MainPcs \/ mainCalls > 0) => issues = catalog

C16_Witness ==
    /\ pc = "m_summary"
    /\ Len(catalog) = 3
    /\ Len(results) = 3
    /\ issues = catalog

\* C17: in create_issues_direct.py every POST carries the credential that
\* get_github_token resolved and that the authentication GET was sent
\* with, although the exec rebuilds 'headers' from the environment.
C17_PostCarriesResolvedCredential ==
    script = "direct" =>
        \A n \in 1..Len(log) :
            log[n].kind = "POST" =>
                /\ log[n].cred = token
                /\ log[1].kind = "GET" /\ log[1].cred = log[n].cred
                /\ authStatus = 200

C17_Witness ==
    /\ script = "direct"
    /\ NumKind("POST") = 2
    /\ headers = GITHUB_TOKEN
    /\ log[Len(log)].kind = "POST"
    /\ log[Len(log)].cred = token

WhitespaceOnly(o) == \A k \in 1..Len(o) : IsSpace(o[k])

\* C18: in create_issues_direct.py, with the variable empty and the helper
\* exiting with 0 but printing only whitespace or nothing, the credential
\* counts as unavailable: remediation text and status 1, no GET, no POST.
C18_BlankHelperOutput ==
    (/\ script = "direct"
     /\ helperRes.kind = "exit" /\ helperRes.rc = 0
     /\ WhitespaceOnly(helperRes.stdout)) =>
        /\ log = <<>>
        /\ ~uncaught
        /\ pc \in {"d_tokencheck", "done"}
        /\ pc = "done" => (exitStatus = 1 /\ out = <<"REMEDIATION">>)

C18_Witness ==
    /\ script = "direct"
    /\ pc = "done"
    /\ helperRes.kind = "exit" /\ helperRes.rc = 0
    /\ helperRes.stdout = <<" ", "NL">>
    /\ exitStatus = 1
    /\ log = <<>>

AuthPassed == \E k \in 1..Len(out) : out[k] = "AUTHOK"

\* C19: in create_issues_direct.py the authentication check is passed
\* exactly when the status is 200; every other status, other 2xx statuses
\* included, ends the process with status 1 before any POST.
C19_AuthPassesOnlyOn200 ==
    (script = "direct" /\ authStatus # 0) =>
        /\ AuthPassed <=> authStatus = 200
        /\ authStatus = 200 => (pc # "done" \/ out[Len(out)] # "AUTHOK")
        /\ authStatus # 200 =>
              /\ pc = "done" /\ exitStatus = 1 /\ ~uncaught
              /\ out[Len(out)] = "AUTHFAILED"
              /\ NumKind("POST") = 0

C19_Witness ==
    /\ script = "direct"
    /\ authStatus = 204
    /\ pc = "done"
    /\ exitStatus = 1

\* the authentication GET was sent and raised instead of returning
AuthGetRaised ==
    /\ script = "direct"
    /\ NumKind("GET") = 1
    /\ authStatus = 0
    /\ pc # "d_authwait"

\* C20: in create_issues_direct.py an exception raised by the
\* authentication GET is not turned into a counted failure: the process
\* ends by it with a non-zero status, with no POST and no tally.
C20_AuthExceptionPropagates ==
    AuthGetRaised =>
        /\ pc = "done"
        /\ uncaught
        /\ exitStatus # 0
        /\ NumKind("POST") = 0
        /\ failed = 0 /\ created = 0
        /\ mainCalls = 0 /\ summaries = <<>>

C20_Witness ==
    /\ AuthGetRaised
    /\ pc = "done"
    /\ uncaught
    /\ out = <<"TESTING">>

PausesOf(n) == IF n = 0 THEN 0 ELSE n - 1

\* the latest call of main() has just ended, after exactly N iterations,
\* N submissions and max(N-1, 0) pauses (each earlier call of the run ended
\* in the same way, so the run holds mainCalls times these numbers)
MainTerminated ==
    /\ MainEnded
    /\ i = Len(catalog)
    /\ Len(sent) = Len(catalog)
    /\ Len(results) = Len(catalog)
    /\ NumKind("POST") = mainCalls * Len(catalog)
    /\ NumKind("SLEEP") = mainCalls * PausesOf(Len(catalog))
    /\ \/ pc = ret /\ failed = 0
       \/ pc = "done" /\ exitStatus = 1 /\ ~uncaught /\ failed > 0

\* C21: provided every HTTP call and every pause returns or raises, a call
\* of main() terminates after exactly N iterations, N submission attempts
\* and max(N-1, 0) pauses, by returning or by exiting with status 1.
C21_MainTerminates == (pc \in MainPcs) ~> MainTerminated

C21_Witness ==
    /\ MainTerminated
    /\ Len(catalog) = 3
    /\ pc = ret
    /\ NumKind("SLEEP") = 2

====
